---- MODULE Spec2Model ----
\* Model of the coil daemon's configuration store (coil::ConfigParser):
\* base template table, user override table, user file with modification
\* time, drift check, merge, persistence with rollback, change queue.
EXTENDS Integers, Sequences, FiniteSets, TLC

\* ---------------------------------------------------------------- bounds

\* Number of writes to the user file (by the store or by an external
\* editor) along one behaviour; every write stamps a fresh modification time.
MaxClock == 3

\* Longest change queue (m_updated_config) explored.
MaxQueue == 2

\* ------------------------------------------------------------ json values

\* A nlohmann::json value: its value_t kind, a payload (the number, or an
\* index naming the string / array content; 0 or 1 for a boolean) and, for an
\* array, the kinds of its elements.
Json(kind, val, elems) == [kind |-> kind, val |-> val, elems |-> elems]

JNull == Json("null", 0, <<>>)

JBool(b) == Json("boolean", b, <<>>)

JInt(n) == Json("number_integer", n, <<>>)

JUnsigned(n) == Json("number_unsigned", n, <<>>)

JFloat(n) == Json("number_float", n, <<>>)

JString(n) == Json("string", n, <<>>)

JArray(n, elems) == Json("array", n, elems)

JObject(n) == Json("object", n, <<>>)

\* nlohmann's operator== as used by "old_data != setting_data": integers of
\* the two integer kinds compare by value; the floats of the model stand for
\* non-integral numbers and so never equal an integer.
IsIntegerKind(k) == k \in {"number_integer", "number_unsigned"}

JsonEq(a, b) ==
    IF IsIntegerKind(a.kind) /\ IsIntegerKind(b.kind)
    THEN a.val = b.val
    ELSE a = b

\* ConfigParser::getConfigType(nlohmann::json), as in configParser.cpp: the
\* switch has no case for boolean, and every array is "Array".
getConfigType(data) ==
    CASE data.kind = "number_integer" -> "Int"
      [] data.kind = "number_unsigned" -> "Int"
      [] data.kind = "number_float" -> "Float"
      [] data.kind = "string" -> "String"
      [] data.kind = "array" -> "Array"
      [] OTHER -> "None"

\* ConfigParser::getConfigType<Type>(), the compile-time map of the header.
CppTypes == {"bool", "int", "double", "std::string", "std::vector<int>"}

getConfigTypeOf(T) ==
    CASE T = "bool" -> "Bool"
      [] T = "int" -> "Int"
      [] T = "double" -> "Float"
      [] T = "std::string" -> "String"
      [] T = "std::vector<int>" -> "ArrayInt"
      [] OTHER -> "None"

\* "nlohmann::json json_data = data": the json a C++ value converts to.
ToJson(T, val) ==
    CASE T = "bool" -> JBool(val)
      [] T = "int" -> JInt(val)
      [] T = "double" -> JFloat(val)
      [] T = "std::string" -> JString(val)
      [] OTHER -> JArray(val, <<"number_integer", "number_integer">>)

\* ------------------------------------------------------- the file format

\* What json.dump(4) writes for a value: the two integer kinds print the
\* same digits, so the kind is not in the text.
DumpKind(k) == IF IsIntegerKind(k) THEN "digits" ELSE k

DumpElems(elems) == [i \in DOMAIN elems |-> DumpKind(elems[i])]

Dump(j) == [lex |-> DumpKind(j.kind), val |-> j.val, elems |-> DumpElems(j.elems)]

\* What json::parse reads back: digits without a sign are number_unsigned,
\* with a minus sign number_integer.
ParseKind(lex, val) ==
    IF lex = "digits"
    THEN IF val >= 0 THEN "number_unsigned" ELSE "number_integer"
    ELSE lex

ParseElems(elems) == [i \in DOMAIN elems |-> ParseKind(elems[i], 0)]

Parse(t) == Json(ParseKind(t.lex, t.val), t.val, ParseElems(t.elems))

\* ------------------------------------------------------------------- paths

ConfigPath(category, name) == [category |-> category, name |-> name]

P_mirroring == ConfigPath("general", "mirroring")

P_dpi == ConfigPath("video", "dpi")

P_legacy == ConfigPath("video", "legacy")

\* ConfigPath::operator<: by category, then by name. The paths of the model
\* in that order, which is the order std::map and json::items() iterate in.
PathOrder == <<P_mirroring, P_dpi, P_legacy>>

Paths == {PathOrder[i] : i \in DOMAIN PathOrder}

\* Maps keyed by ConfigPath (std::map): insert-or-assign, erase, find.
EmptyMap == [q \in {} |-> JNull]

Put(m, p, v) == [q \in (DOMAIN m) \cup {p} |-> IF q = p THEN v ELSE m[q]]

Erase(m, p) == [q \in (DOMAIN m) \ {p} |-> m[q]]

Has(m, p) == p \in DOMAIN m

\* ------------------------------------------------------ the base template

\* One "category -> setting -> {default, displayed_name, description}" entry
\* of the template file, as parsed; a field the file lacks reads as null.
TemplateEntry(default, displayed_name, description) ==
    [default |-> default, displayed_name |-> displayed_name,
     description |-> description]

\* The template file of the model: general.mirroring (default false),
\* video.dpi (default 96) and video.legacy, which has no description.
TemplateDoc ==
    (P_mirroring :> TemplateEntry(JBool(0), JString(1), JString(2)))
    @@ (P_dpi :> TemplateEntry(JUnsigned(96), JString(3), JString(4)))
    @@ (P_legacy :> TemplateEntry(JUnsigned(1), JString(5), JNull))

\* The per-entry checks of parseBaseConfig: an entry failing one is skipped.
TemplateEntryValid(e) ==
    /\ e.default.kind # "null"
    /\ e.displayed_name.kind # "null"
    /\ e.description.kind # "null"
    /\ e.default.kind # "object"
    /\ e.displayed_name.kind = "string"
    /\ e.description.kind = "string"

\* ConfigBaseData(default, displayed_name, description): the type is
\* getConfigType(default).
ConfigBaseData(e) ==
    [default |-> e.default, type |-> getConfigType(e.default),
     displayed_name |-> e.displayed_name.val,
     description |-> e.description.val]

parseBaseConfig(doc) ==
    [p \in {q \in DOMAIN doc : TemplateEntryValid(doc[q])} |->
        ConfigBaseData(doc[p])]

\* The base table never changes after construction.
m_base_config == parseBaseConfig(TemplateDoc)

\* ------------------------------------------------------------ the store

VARIABLES
    m_user_config,      \* std::map<ConfigPath, json>: the user overrides
    m_last_write,       \* recorded modification time of the user file
    m_updated_config,   \* std::vector<ConfigPath>: the change queue
    m_updated,          \* bool: "anything changed" flag
    userFile,           \* the user file on disk
    clock,              \* the file system's clock: the last time stamped
    last,               \* record of the last step
    pc,                 \* where each thread of the daemon stands in its loop
    served,             \* the property call served in this loop iteration
    drifted,            \* paths re-parses of the file queued, this iteration
    emitted,            \* PropertiesChanged signals emitted, this iteration
    classifyIn,         \* a json value handed to getConfigType
    classifyOut         \* what getConfigType returned for it

storeVars ==
    <<m_user_config, m_last_write, m_updated_config, m_updated, userFile,
      clock, last>>

loopVars == <<pc, served, drifted, emitted>>

classifyVars == <<classifyIn, classifyOut>>

vars == <<storeVars, loopVars, classifyVars>>

\* The store's members as one value.
Store(user, queue, updated, last_write) ==
    [user |-> user, queue |-> queue, updated |-> updated,
     last_write |-> last_write]

Self == Store(m_user_config, m_updated_config, m_updated, m_last_write)

\* A default-constructed std::filesystem::file_time_type: the clock's epoch.
EpochTime == 0

\* The user file: absent, or present with a modification time and either a
\* text json::parse rejects or a document "category -> setting -> value".
NoFile == [exists |-> FALSE, parsable |-> FALSE, doc |-> EmptyMap, mtime |-> EpochTime]

BadFile(t) == [exists |-> TRUE, parsable |-> FALSE, doc |-> EmptyMap, mtime |-> t]

DocFile(doc, t) == [exists |-> TRUE, parsable |-> TRUE, doc |-> doc, mtime |-> t]

\* One iteration of the loops of parseUserConfig, for the entry (p, data).
\* Variant: the merge stores every entry whose path is in Base.
MergeEntry_noTypeCheck(st, p, data) ==
    IF ~Has(m_base_config, p)
    THEN st
    ELSE Store(Put(st.user, p, data), Append(st.queue, p), TRUE, st.last_write)

\* Variant: a skipped entry still sets the flag.
MergeEntry_flagInvalid(st, p, data) ==
    IF ~Has(m_base_config, p) \/ m_base_config[p].type # getConfigType(data)
    THEN [st EXCEPT !.updated = TRUE]
    ELSE LET changed ==
                 IF Has(st.user, p) THEN ~JsonEq(st.user[p], data) ELSE TRUE
         IN  Store(Put(st.user, p, data),
                   IF changed THEN Append(st.queue, p) ELSE st.queue,
                   IF changed THEN TRUE ELSE st.updated,
                   st.last_write)

\* Variant: a valid entry is marked whether or not its value changed.
MergeEntry_alwaysMark(st, p, data) ==
    IF ~Has(m_base_config, p) \/ m_base_config[p].type # getConfigType(data)
    THEN st
    ELSE Store(Put(st.user, p, data), Append(st.queue, p), TRUE, st.last_write)

MergeEntry(st, p, data) ==
    IF ~Has(m_base_config, p)
    THEN st
    ELSE IF m_base_config[p].type # getConfigType(data)
    THEN st
    ELSE LET changed ==
                 IF Has(st.user, p) THEN ~JsonEq(st.user[p], data) ELSE TRUE
         IN  Store(Put(st.user, p, data),
                   IF changed THEN Append(st.queue, p) ELSE st.queue,
                   IF changed THEN TRUE ELSE st.updated,
                   st.last_write)

\* The loops of parseUserConfig, over the file's entries in iteration order.
RECURSIVE MergeFrom(_, _, _)
MergeFrom(i, st, doc) ==
    IF i > Len(PathOrder)
    THEN st
    ELSE LET p == PathOrder[i]
         IN  IF Has(doc, p)
             THEN MergeFrom(i + 1, MergeEntry(st, p, Parse(doc[p])), doc)
             ELSE MergeFrom(i + 1, st, doc)

\* ConfigParser::parseUserConfig: nothing when the file is absent or does
\* not parse, else the merge of its entries.
\* Variant: the table is rebuilt from the file alone.
parseUserConfig_replace(st, f) ==
    IF ~f.exists \/ ~f.parsable
    THEN st
    ELSE MergeFrom(1, [st EXCEPT !.user = EmptyMap], f.doc)

parseUserConfig(st, f) ==
    IF ~f.exists \/ ~f.parsable
    THEN st
    ELSE MergeFrom(1, st, f.doc)

\* ConfigParser::checkConfigFileUpdate.
\* Variant: a missing file empties the user table.
checkConfigFileUpdate_dropOnMissing(st, f) ==
    IF f.exists
    THEN IF st.last_write # f.mtime
         THEN [parseUserConfig(st, f) EXCEPT !.last_write = f.mtime]
         ELSE st
    ELSE [st EXCEPT !.user = EmptyMap]

\* Variant: the new time is recorded only when the file parsed.
checkConfigFileUpdate_stampOnSuccess(st, f) ==
    IF f.exists /\ st.last_write # f.mtime /\ f.parsable
    THEN [parseUserConfig(st, f) EXCEPT !.last_write = f.mtime]
    ELSE st

\* Variant: the new time is recorded without re-parsing.
checkConfigFileUpdate_noParse(st, f) ==
    IF f.exists /\ st.last_write # f.mtime
    THEN [st EXCEPT !.last_write = f.mtime]
    ELSE st

checkConfigFileUpdate(st, f) ==
    IF f.exists /\ st.last_write # f.mtime
    THEN [parseUserConfig(st, f) EXCEPT !.last_write = f.mtime]
    ELSE st

\* ConfigParser::ConfigParser, after parseBaseConfig: merge the user file
\* into an empty table, record its time, clear the queue and the flag.
\* Variant: the constructor does not clear the queue and the flag.
Construct_keepMarks(f) ==
    LET st == parseUserConfig(Store(EmptyMap, <<>>, FALSE, EpochTime), f)
    IN  Store(st.user, st.queue, st.updated,
              IF f.exists THEN f.mtime ELSE EpochTime)

Construct(f) ==
    LET st == parseUserConfig(Store(EmptyMap, <<>>, FALSE, EpochTime), f)
    IN  Store(st.user, <<>>, FALSE, IF f.exists THEN f.mtime ELSE EpochTime)

\* The lookup of ConfigParser::getConfig after its drift check: the
\* override, else the default, else nullopt.
NotFoundJson == [kind |-> "nullopt", val |-> 0, elems |-> <<>>]

\* Variant: the default shadows the override.
Lookup_defaultFirst(user, p) ==
    IF Has(m_base_config, p) THEN m_base_config[p].default
    ELSE IF Has(user, p) THEN user[p]
    ELSE NotFoundJson

Lookup(user, p) ==
    IF Has(user, p) THEN user[p]
    ELSE IF Has(m_base_config, p) THEN m_base_config[p].default
    ELSE NotFoundJson

\* ConfigParser::get<Type>: what the caller gets from the json getConfig
\* returned.
TypedGet(T, j) ==
    IF j = NotFoundJson
    THEN [outcome |-> "throw_not_exist", val |-> 0]
    ELSE IF getConfigType(j) # getConfigTypeOf(T)
    THEN [outcome |-> "throw_wrong_type", val |-> 0]
    ELSE [outcome |-> "value", val |-> j.val]

\* ConfigParser::storeUserCofig: the json document built from the table.
\* Variant: overrides equal to the default are left out of the document.
DumpTable_skipDefaults(user) ==
    [p \in {q \in DOMAIN user : ~JsonEq(user[q], m_base_config[q].default)} |->
        Dump(user[p])]

DumpTable(user) == [p \in DOMAIN user |-> Dump(user[p])]

\* The outcomes of the write in storeUserCofig: it succeeds; the stream
\* cannot be opened (the file is as it was); the file is opened, and so
\* truncated, and the write or the flush fails (a text that does not parse).
WriteOutcomes == {"ok", "open_fail", "write_fail"}

\* Variant: the stream is opened in a mode that does not create the file.
FileAfterStore_noCreate(user, f, outcome, t) ==
    IF ~f.exists THEN f
    ELSE CASE outcome = "ok" -> DocFile(DumpTable(user), t)
           [] outcome = "write_fail" -> BadFile(t)
           [] OTHER -> f

FileAfterStore(user, f, outcome, t) ==
    CASE outcome = "ok" -> DocFile(DumpTable(user), t)
      [] outcome = "write_fail" -> BadFile(t)
      [] OTHER -> f

\* Undo of the staged entry in the catch blocks of setConfig: the old value
\* back, or the key erased when it was not there.
\* Variant: the catch block does not revert the entry.
Rollback_keepStaged(old, staged, p) == staged

\* Variant: both catch blocks erase the entry.
Rollback_eraseAlways(old, staged, p) == Erase(staged, p)

Rollback(old, staged, p) ==
    IF Has(old, p) THEN Put(staged, p, old[p]) ELSE Erase(staged, p)

\* The early returns of setConfig (NotFound, TypeMismatch): nothing but the
\* drift check has touched the store.
\* Variant: the value is stored before the path and type are tested.
Rejected_staged(s1, f, p, data, status) ==
    [st |-> [s1 EXCEPT !.user = Put(s1.user, p, data)], file |-> f,
     status |-> status, write |-> "none"]

Rejected(s1, f, p, data, status) ==
    [st |-> s1, file |-> f, status |-> status, write |-> "none"]

\* The type test of setConfig.
\* Variant: the type test is missing.
TypeMatches_any(p, data) == TRUE

TypeMatches(p, data) == m_base_config[p].type = getConfigType(data)

\* The catch blocks of setConfig: roll the entry back, return FileError.
\* Variant: the path is marked as changed before the write is tried.
FailedWrite_marked(s1, staged, p, f2, outcome) ==
    [st |-> Store(Rollback(s1.user, staged, p), Append(s1.queue, p), TRUE,
                  s1.last_write),
     file |-> f2, status |-> "FileError", write |-> outcome]

FailedWrite(s1, staged, p, f2, outcome) ==
    [st |-> [s1 EXCEPT !.user = Rollback(s1.user, staged, p)],
     file |-> f2, status |-> "FileError", write |-> outcome]

\* The end of setConfig after storeUserCofig returned: the staged value
\* stays, the path is marked, and storeUserCofig has recorded the time t of
\* its own write.
\* Variant: the path is marked only when the value differs from the old.
Committed_markIfChanged(s1, staged, p, f2, outcome, t) ==
    [st |-> Store(staged,
                  IF staged = s1.user THEN s1.queue ELSE Append(s1.queue, p),
                  IF staged = s1.user THEN s1.updated ELSE TRUE, t),
     file |-> f2, status |-> "Ok", write |-> outcome]

\* Variant: the path is pushed but the flag is not set.
Committed_noFlag(s1, staged, p, f2, outcome, t) ==
    [st |-> Store(staged, Append(s1.queue, p), s1.updated, t),
     file |-> f2, status |-> "Ok", write |-> outcome]

\* Variant: storeUserCofig does not record the time of its write.
Committed_noStamp(s1, staged, p, f2, outcome, t) ==
    [st |-> Store(staged, Append(s1.queue, p), TRUE, s1.last_write),
     file |-> f2, status |-> "Ok", write |-> outcome]

Committed(s1, staged, p, f2, outcome, t) ==
    [st |-> Store(staged, Append(s1.queue, p), TRUE, t),
     file |-> f2, status |-> "Ok", write |-> outcome]

\* ConfigParser::setConfig, with the outcome of the write and the time the
\* file system stamps on it: the store and the file after the call, and the
\* status returned.
\* Variant: setConfig does not start with a drift check.
setConfig_noDriftCheck(st, f, p, data, outcome, t) ==
    IF ~Has(m_base_config, p)
    THEN Rejected(st, f, p, data, "NotFound")
    ELSE IF ~TypeMatches(p, data)
    THEN Rejected(st, f, p, data, "TypeMismatch")
    ELSE LET staged == Put(st.user, p, data)
             f2 == FileAfterStore(staged, f, outcome, t)
         IN  IF outcome = "ok"
             THEN Committed(st, staged, p, f2, outcome, t)
             ELSE FailedWrite(st, staged, p, f2, outcome)

setConfig(st, f, p, data, outcome, t) ==
    LET s1 == checkConfigFileUpdate(st, f)
    IN  IF ~Has(m_base_config, p)
        THEN Rejected(s1, f, p, data, "NotFound")
        ELSE IF ~TypeMatches(p, data)
        THEN Rejected(s1, f, p, data, "TypeMismatch")
        ELSE LET staged == Put(s1.user, p, data)
                 f2 == FileAfterStore(staged, f, outcome, t)
             IN  IF outcome = "ok"
                 THEN Committed(s1, staged, p, f2, outcome, t)
                 ELSE FailedWrite(s1, staged, p, f2, outcome)

\* ConfigParser::getConfig: the store after the drift check and the json
\* returned.
getConfig(st, f, p) ==
    LET s1 == checkConfigFileUpdate(st, f)
    IN  [st |-> s1, json |-> Lookup(s1.user, p)]

\* ConfigParser::wasUpdated: drift check, then read and clear the flag.
\* Variant: the flag is returned but not cleared.
wasUpdated_noClear(st, f) ==
    LET s1 == checkConfigFileUpdate(st, f)
    IN  [st |-> s1, ret |-> s1.updated]

\* Variant: wasUpdated does not start with a drift check.
wasUpdated_noDriftCheck(st, f) ==
    [st |-> [st EXCEPT !.updated = FALSE], ret |-> st.updated]

wasUpdated(st, f) ==
    LET s1 == checkConfigFileUpdate(st, f)
    IN  [st |-> [s1 EXCEPT !.updated = FALSE], ret |-> s1.updated]

\* ConfigParser::updatedConfigs: return the queue and clear it.
\* Variant: the queue is returned but not cleared.
updatedConfigs_noClear(st) == [st |-> st, ret |-> st.queue]

updatedConfigs(st) ==
    [st |-> [st EXCEPT !.queue = <<>>], ret |-> st.queue]

\* ------------------------------------------------------------ the inputs

\* The calls of set<Type>(path, value) made by callers: matching types,
\* mismatching types and a path the base table lacks.
TypedValue(ctype, val) == [ctype |-> ctype, val |-> val]

SetCalls ==
    {<<P_dpi, TypedValue("int", 120)>>, <<P_dpi, TypedValue("std::string", 1)>>,
     <<P_mirroring, TypedValue("bool", 1)>>,
     <<P_mirroring, TypedValue("int", 120)>>,
     <<P_legacy, TypedValue("int", 120)>>}

\* The calls of get<Type>(path): each setting is read as the C++ type of
\* its default.
GetCalls == {<<P_dpi, "int">>, <<P_mirroring, "bool">>, <<P_legacy, "int">>}

\* The documents an editor may leave in the user file.
Token(lex, val) == [lex |-> lex, val |-> val, elems |-> <<>>]

EditDocs ==
    { EmptyMap,
      (P_dpi :> Token("digits", 120)),
      (P_dpi :> Token("digits", 96)) @@ (P_legacy :> Token("digits", 1)),
      (P_dpi :> Token("string", 1)) @@ (P_mirroring :> Token("boolean", 1)),
      (P_mirroring :> Token("null", 0)),
      (P_mirroring :> Token("digits", 5)) @@ (P_dpi :> Token("digits", 120)) }

\* ------------------------------------------------------ history of calls

NoRet == [outcome |-> "none", val |-> 0]

\* The last step: the call made on the store, with what it was called and
\* what it returned, and whether its drift check re-parsed the file; or an
\* external action on the user file.
Call(op, path, in, status, write, json, ret, retFlag, retPaths, drift) ==
    [op |-> op, path |-> path, ctype |-> in.ctype, val |-> in.val,
     status |-> status, write |-> write, json |-> json, ret |-> ret,
     retFlag |-> retFlag, retPaths |-> retPaths, drift |-> drift]

NoInput == TypedValue("none", 0)

Constructed ==
    Call("init", P_legacy, NoInput, "none", "none", JNull, NoRet, FALSE, <<>>,
         FALSE)

External ==
    Call("external", P_legacy, NoInput, "none", "none", JNull, NoRet, FALSE,
         <<>>, FALSE)

\* The condition of checkConfigFileUpdate: the file exists and its time is
\* not the recorded one.
Drifted(st, f) == f.exists /\ st.last_write # f.mtime

\* ------------------------------------------------------------ the actions

SetSelf(st) ==
    /\ m_user_config' = st.user
    /\ m_updated_config' = st.queue
    /\ m_updated' = st.updated
    /\ m_last_write' = st.last_write

\* main calls DbusServer::run and starts no other loop.
\* Variant: signalChangeLoop is started on a thread of its own.
Threads_withSignalLoop == {"run", "signalChangeLoop"}

Threads == {"run"}

\* The first statement of a thread's loop.
LoopHead(t) == IF t = "run" THEN "poll" ELSE "signal"

NoCall == [op |-> "none", path |-> P_legacy, status |-> "none"]

\* DbusServer::DbusServer leaves every thread at the head of its loop.
LoopInit ==
    /\ pc = [t \in Threads |-> LoopHead(t)]
    /\ served = NoCall
    /\ drifted = <<>>
    /\ emitted = <<>>

\* No value has been handed to getConfigType.
ClassifyIdle ==
    /\ classifyIn = JNull
    /\ classifyOut = "pending"

\* After construction over any user file: absent, unparsable or a document.
StoreInit ==
    /\ userFile \in {NoFile, BadFile(1)} \cup {DocFile(d, 1) : d \in EditDocs}
    /\ clock = 1
    /\ m_user_config = Construct(userFile).user
    /\ m_updated_config = Construct(userFile).queue
    /\ m_updated = Construct(userFile).updated
    /\ m_last_write = Construct(userFile).last_write
    /\ last = Constructed

Init == StoreInit /\ LoopInit /\ ClassifyIdle

\* get<T>(p)
Get(p, T) ==
    LET r == getConfig(Self, userFile, p)
    IN  /\ Len(r.st.queue) <= MaxQueue
        /\ SetSelf(r.st)
        /\ last' = Call("get", p, TypedValue(T, 0), "none", "none", r.json,
                         TypedGet(T, r.json), FALSE, <<>>,
                         Drifted(Self, userFile))
        /\ UNCHANGED <<userFile, clock>>

\* set<T>(p, val), the write ending as outcome
Set(p, in, outcome) ==
    LET r == setConfig(Self, userFile, p, ToJson(in.ctype, in.val), outcome,
                       clock + 1)
        written == r.file # userFile
    IN  /\ written => clock < MaxClock
        /\ (r.write = "none") => outcome = "ok"
        /\ Len(r.st.queue) <= MaxQueue
        /\ SetSelf(r.st)
        /\ userFile' = r.file
        /\ clock' = IF written THEN clock + 1 ELSE clock
        /\ last' = Call("set", p, in, r.status, r.write, JNull, NoRet, FALSE,
                         <<>>, Drifted(Self, userFile))

WasUpdated ==
    LET r == wasUpdated(Self, userFile)
    IN  /\ Len(r.st.queue) <= MaxQueue
        /\ SetSelf(r.st)
        /\ last' = Call("wasUpdated", P_legacy, NoInput, "none", "none", JNull,
                         NoRet, r.ret, <<>>, Drifted(Self, userFile))
        /\ UNCHANGED <<userFile, clock>>

UpdatedConfigs ==
    LET r == updatedConfigs(Self)
    IN  /\ SetSelf(r.st)
        /\ last' = Call("updatedConfigs", P_legacy, NoInput, "none", "none",
                         JNull, NoRet, FALSE, r.ret, FALSE)
        /\ UNCHANGED <<userFile, clock>>

\* An editor, or any other process, rewrites the user file.
ExternalEdit(f) ==
    /\ clock < MaxClock
    /\ userFile' = [f EXCEPT !.mtime = clock + 1]
    /\ clock' = clock + 1
    /\ last' = External
    /\ UNCHANGED <<m_user_config, m_last_write, m_updated_config, m_updated>>

\* The user file is deleted.
ExternalDelete ==
    /\ userFile.exists
    /\ userFile' = NoFile
    /\ last' = External
    /\ UNCHANGED <<m_user_config, m_last_write, m_updated_config, m_updated,
                   clock>>

\* The callers of the store, in any order, and the other processes that
\* touch the file.
Next ==
    \/ \E c \in GetCalls :
          Get(c[1], c[2]) /\ UNCHANGED <<loopVars, classifyVars>>
    \/ \E c \in SetCalls, outcome \in WriteOutcomes :
          Set(c[1], c[2], outcome) /\ UNCHANGED <<loopVars, classifyVars>>
    \/ WasUpdated /\ UNCHANGED <<loopVars, classifyVars>>
    \/ UpdatedConfigs /\ UNCHANGED <<loopVars, classifyVars>>
    \/ \E d \in EditDocs :
          ExternalEdit(DocFile(d, 0)) /\ UNCHANGED <<loopVars, classifyVars>>
    \/ ExternalEdit(BadFile(0)) /\ UNCHANGED <<loopVars, classifyVars>>
    \/ userFile.exists /\ ExternalEdit(userFile)
          /\ UNCHANGED <<loopVars, classifyVars>>
    \/ ExternalDelete /\ UNCHANGED <<loopVars, classifyVars>>

Spec == Init /\ [][Next]_vars

\* ------------------------------------------------------- the event loop

\* DbusServer::createConfigProperty: the C++ type of the property added for
\* a setting of a type; no property is added for any other type.
PropertyCppType(type) ==
    CASE type = "Bool" -> "bool"
      [] type = "Int" -> "int"
      [] type = "Float" -> "double"
      [] type = "String" -> "std::string"
      [] type = "ArrayInt" -> "std::vector<int>"
      [] type = "ArrayFloat" -> "std::vector<double>"
      [] type = "ArrayString" -> "std::vector<std::string>"
      [] OTHER -> "none"

\* The settings that have a property on the bus.
Registered ==
    {p \in DOMAIN m_base_config :
        PropertyCppType(m_base_config[p].type) # "none"}

\* The property writes and reads a client can make: the setter and getter
\* of a property call set<Type> and get<Type> with the type it was
\* registered with.
IpcSetCalls ==
    {<<p, TypedValue(PropertyCppType(m_base_config[p].type), v)>> :
        p \in Registered, v \in {96, 120}}

IpcGetCalls ==
    {<<p, PropertyCppType(m_base_config[p].type)>> : p \in Registered}

\* The paths the drift check of a call appends to the queue.
DriftAppends(st, f) ==
    LET c == checkConfigFileUpdate(st, f)
    IN  SubSeq(c.queue, Len(st.queue) + 1, Len(c.queue))

\* DbusServer::sendChangeSignals, the for loop: one PropertiesChanged per
\* path returned by updatedConfigs, in order.
\* Variant: only the first path is signalled.
SignalsFor_firstOnly(paths) ==
    IF paths = <<>> THEN <<>> ELSE <<Head(paths)>>

\* Variant: the last path of the queue is signalled first.
SignalsFor_lastFirst(paths) ==
    IF Len(paths) < 2
    THEN paths
    ELSE <<paths[Len(paths)]>> \o SubSeq(paths, 1, Len(paths) - 1)

SignalsFor(paths) == paths

\* DbusServer::DbusServer and createCategoryObject: m_category_objects has
\* an object for each category of the base table (a category gets its object
\* even when none of its settings gets a property).
\* Variant: only categories with a property get an object.
CategoryObjects_withProperty == {p.category : p \in Registered}

CategoryObjects == {p.category : p \in DOMAIN m_base_config}

\* The paths of a drained queue up to the first whose category has no
\* object: "m_category_objects[category]" then yields a null pointer.
RECURSIVE Resolvable(_)
Resolvable(paths) ==
    IF paths = <<>> \/ Head(paths).category \notin CategoryObjects
    THEN <<>>
    ELSE <<Head(paths)>> \o Resolvable(Tail(paths))

Goto(t, loc) == pc' = [pc EXCEPT ![t] = loc]

\* A new iteration starts: nothing served, queued or emitted in it yet.
StartIteration ==
    /\ served' = NoCall
    /\ drifted' = <<>>
    /\ emitted' = <<>>

\* The errno values a failed poll leaves.
PollErrors == {"EINTR", "EINVAL"}

\* The record of an iteration whose poll failed.
PollError(errno) == [op |-> "poll", path |-> P_legacy, status |-> errno]

\* "continue" in the body of the loop: on to the next iteration.
\* Variant: the statements after the test of r run all the same.
Continue_fallThrough(t) == "process"

Continue(t) == LoopHead(t)

\* poll returns r < 0: the test for EINTR has an empty body, and the test
\* "r < 0" that follows logs a warning and continues, whatever errno is.
PollFail(t, errno) ==
    /\ pc[t] = "poll"
    /\ served' = PollError(errno)
    /\ drifted' = <<>>
    /\ emitted' = <<>>
    /\ Goto(t, Continue(t))
    /\ UNCHANGED <<storeVars, classifyVars>>

\* poll returns r >= 0.
PollOk(t) ==
    /\ pc[t] = "poll"
    /\ StartIteration
    /\ Goto(t, "process")
    /\ UNCHANGED <<storeVars, classifyVars>>

\* processPendingEvent with no property call pending.
ProcessNone(t) ==
    /\ pc[t] = "process"
    /\ Goto(t, "signal")
    /\ UNCHANGED <<served, drifted, emitted, storeVars, classifyVars>>

\* processPendingEvent runs the getter of a property.
ProcessGet(t, p, T) ==
    /\ pc[t] = "process"
    /\ Get(p, T)
    /\ served' = [op |-> "get", path |-> p, status |-> "none"]
    /\ drifted' = drifted \o DriftAppends(Self, userFile)
    /\ Goto(t, "signal")
    /\ UNCHANGED <<emitted, classifyVars>>

\* processPendingEvent runs the setter of a property.
ProcessSet(t, p, in, outcome) ==
    /\ pc[t] = "process"
    /\ Set(p, in, outcome)
    /\ served' = [op |-> "set", path |-> p, status |-> last'.status]
    /\ drifted' = drifted \o DriftAppends(Self, userFile)
    /\ Goto(t, "signal")
    /\ UNCHANGED <<emitted, classifyVars>>

\* sendChangeSignals: "if (m_config_parser.wasUpdated())".
SignalCheck(t) ==
    /\ pc[t] = "signal"
    /\ WasUpdated
    /\ drifted' = drifted \o DriftAppends(Self, userFile)
    /\ Goto(t, IF last'.retFlag THEN "drain" ELSE LoopHead(t))
    /\ UNCHANGED <<served, emitted, classifyVars>>

\* sendChangeSignals: updatedConfigs() and the signal for each path. A
\* path whose category has no object makes the loop call through a null
\* pointer: the thread may stop there, or go on.
Drain(t) ==
    /\ pc[t] = "drain"
    /\ UpdatedConfigs
    /\ IF Resolvable(last'.retPaths) = last'.retPaths
       THEN /\ emitted' = emitted \o SignalsFor(last'.retPaths)
            /\ Goto(t, LoopHead(t))
       ELSE /\ emitted' = emitted \o SignalsFor(Resolvable(last'.retPaths))
            /\ \E loc \in {"crashed", LoopHead(t)} : Goto(t, loc)
    /\ UNCHANGED <<served, drifted, classifyVars>>

\* The loops of the daemon's threads, and the other processes that touch
\* the file.
LoopNext ==
    \/ \E t \in Threads, errno \in PollErrors : PollFail(t, errno)
    \/ \E t \in Threads : PollOk(t)
    \/ \E t \in Threads : ProcessNone(t)
    \/ \E t \in Threads, c \in IpcGetCalls : ProcessGet(t, c[1], c[2])
    \/ \E t \in Threads, c \in IpcSetCalls, outcome \in WriteOutcomes :
          ProcessSet(t, c[1], c[2], outcome)
    \/ \E t \in Threads : SignalCheck(t)
    \/ \E t \in Threads : Drain(t)
    \/ \E d \in EditDocs :
          ExternalEdit(DocFile(d, 0)) /\ UNCHANGED <<loopVars, classifyVars>>
    \/ ExternalEdit(BadFile(0)) /\ UNCHANGED <<loopVars, classifyVars>>
    \/ userFile.exists /\ ExternalEdit(userFile)
          /\ UNCHANGED <<loopVars, classifyVars>>
    \/ ExternalDelete /\ UNCHANGED <<loopVars, classifyVars>>

LoopSpec == Init /\ [][LoopNext]_vars

\* processPendingEvent returns, whatever it had to process.
ProcessStep ==
    \E t \in Threads :
        \/ ProcessNone(t)
        \/ \E c \in IpcGetCalls : ProcessGet(t, c[1], c[2])
        \/ \E c \in IpcSetCalls, outcome \in WriteOutcomes :
              ProcessSet(t, c[1], c[2], outcome)

\* The loop keeps completing iterations: poll returns without error again
\* and again, and each statement of the body of run, being a synchronous
\* call, returns.
LoopFairness ==
    /\ WF_vars(\E t \in Threads : PollOk(t))
    /\ WF_vars(ProcessStep)
    /\ WF_vars(\E t \in Threads : SignalCheck(t))
    /\ WF_vars(\E t \in Threads : Drain(t))

LiveSpec == Init /\ [][LoopNext]_vars /\ LoopFairness

\* ------------------------------------------------------- the classifier

\* The longest array handed to the classifier.
MaxArrayLen == 2

ElemKinds ==
    {"null", "boolean", "number_integer", "number_unsigned", "number_float",
     "string", "array"}

\* The json values handed to getConfigType: every kind of value, and the
\* arrays of every combination of element kinds.
ClassifyInputs ==
    {JNull, JBool(0), JBool(1), JInt(0), JInt(120), JUnsigned(96), JFloat(1),
     JString(1), JObject(0)}
    \cup {JArray(0, e) :
            e \in UNION {[1..n -> ElemKinds] : n \in 0..MaxArrayLen}}

ClassifyInit ==
    /\ classifyIn \in ClassifyInputs
    /\ classifyOut = "pending"
    /\ userFile = NoFile
    /\ clock = 1
    /\ m_user_config = Construct(NoFile).user
    /\ m_updated_config = Construct(NoFile).queue
    /\ m_updated = Construct(NoFile).updated
    /\ m_last_write = Construct(NoFile).last_write
    /\ last = Constructed
    /\ LoopInit

\* getConfigType(classifyIn) is called.
Classify ==
    /\ classifyOut = "pending"
    /\ classifyOut' = getConfigType(classifyIn)
    /\ UNCHANGED <<classifyIn, storeVars, loopVars>>

ClassifyNext == Classify

ClassifySpec == ClassifyInit /\ [][ClassifyNext]_vars

\* ------------------------------------------------------------- properties

\* The store after this step, and before it after a drift check of its own.
SelfNext == Store(m_user_config', m_updated_config', m_updated', m_last_write')

Checked == checkConfigFileUpdate(Self, userFile)

\* C1: a set<T>(p, v) that returned Ok, directly followed (no external
\* action on the file in between) by get<T>(p), makes get return v.
C1_RoundTrip ==
    [][(/\ last.op = "set" /\ last.status = "Ok"
        /\ last'.op = "get" /\ last'.path = last.path
        /\ last'.ctype = last.ctype)
       => last'.ret = [outcome |-> "value", val |-> last.val]]_vars

\* C2 as stated: set on a path absent from Base returns NotFound and the
\* User table after the call is the User table before the call.
C2_NotFoundTableIdentical ==
    [][(last'.op = "set" /\ ~Has(m_base_config, last'.path))
       => (last'.status = "NotFound" /\ m_user_config' = m_user_config)]_vars

\* C2 amended: set on a path absent from Base returns NotFound and changes
\* the User table only by its drift check: the table is the one before the
\* call when the file's time is the recorded one, else that table merged
\* with the file; the path itself is never added.
C2_NotFoundOnlyDriftMerge ==
    [][(last'.op = "set" /\ ~Has(m_base_config, last'.path))
       => (/\ last'.status = "NotFound"
           /\ ~Has(m_user_config', last'.path)
           /\ ~Drifted(Self, userFile) => m_user_config' = m_user_config
           /\ Drifted(Self, userFile) =>
                  m_user_config' = parseUserConfig(Self, userFile).user)]_vars

\* C2 witness: a set on a path absent from Base returned NotFound after its
\* drift check re-parsed the file.
C2_Witness ==
    /\ last.op = "set" /\ last.status = "NotFound" /\ last.drift
    /\ ~Has(m_base_config, last.path)

\* C3 as stated: set with a value whose type is not the setting's returns
\* TypeMismatch and the User table after the call is the one before it.
C3_MismatchTableIdentical ==
    [][(/\ last'.op = "set" /\ Has(m_base_config, last'.path)
        /\ getConfigType(ToJson(last'.ctype, last'.val))
               # m_base_config[last'.path].type)
       => (last'.status = "TypeMismatch" /\ m_user_config' = m_user_config)]_vars

\* C3 amended: set with a value whose type is not the setting's returns
\* TypeMismatch and changes the User table only by its drift check; the
\* value passed is not stored.
C3_MismatchOnlyDriftMerge ==
    [][(/\ last'.op = "set" /\ Has(m_base_config, last'.path)
        /\ getConfigType(ToJson(last'.ctype, last'.val))
               # m_base_config[last'.path].type)
       => (/\ last'.status = "TypeMismatch"
           /\ ~Drifted(Self, userFile) => m_user_config' = m_user_config
           /\ Drifted(Self, userFile) =>
                  m_user_config' = parseUserConfig(Self, userFile).user)]_vars

\* C3 witness: a set of a string to the integer setting returned
\* TypeMismatch after its drift check re-parsed the file, and the setting
\* has an override that is not the string.
C3_Witness ==
    /\ last.op = "set" /\ last.status = "TypeMismatch" /\ last.drift
    /\ last.path = P_dpi /\ last.ctype = "std::string"
    /\ Has(m_user_config, P_dpi)

\* C4: when the write of set fails, set returns FileError, the User table
\* is the one its drift check left (the entry restored, or removed when
\* there was none), and every get(q) after the call returns what get(q)
\* returned before it.
C4_FileErrorRestores ==
    [][(last'.op = "set" /\ last'.write \in {"open_fail", "write_fail"})
       => (/\ last'.status = "FileError"
           /\ Has(m_user_config', last'.path) <=> Has(Checked.user, last'.path)
           /\ Has(m_user_config', last'.path) =>
                  m_user_config'[last'.path] = Checked.user[last'.path]
           /\ \A q \in Paths :
                  getConfig(SelfNext, userFile', q).json
                      = getConfig(Self, userFile, q).json)]_vars

\* C4 witness: a set of 120 failed while writing, and the setting holds the
\* other value it had.
C4_Witness ==
    /\ last.op = "set" /\ last.status = "FileError"
    /\ last.write = "write_fail" /\ last.path = P_dpi
    /\ Has(m_user_config, P_dpi) /\ m_user_config[P_dpi].val # last.val

\* C5 as stated: a set that returns FileError leaves the change queue and
\* the flag as they were before the call.
C5_FileErrorQueueIdentical ==
    [][(last'.op = "set" /\ last'.status = "FileError")
       => (m_updated_config' = m_updated_config /\ m_updated' = m_updated)]_vars

\* C5 amended: a set that returns FileError appends no path and sets no
\* flag of its own: the queue and the flag are as its drift check left them
\* (unchanged when the file's time is the recorded one, else with the paths
\* the re-merge of the file appended).
C5_FileErrorOnlyDriftMarks ==
    [][(last'.op = "set" /\ last'.status = "FileError")
       => (/\ ~Drifted(Self, userFile) =>
                  (m_updated_config' = m_updated_config /\ m_updated' = m_updated)
           /\ Drifted(Self, userFile) =>
                  /\ m_updated_config' = parseUserConfig(Self, userFile).queue
                  /\ m_updated' = parseUserConfig(Self, userFile).updated)]_vars

\* C5 witness: a set returned FileError after its drift check re-parsed the
\* file, and the queue holds a path other than the one set.
C5_Witness ==
    /\ last.op = "set" /\ last.status = "FileError" /\ last.drift
    /\ \E i \in DOMAIN m_updated_config : m_updated_config[i] # last.path

\* C6: get(p) returns the override of p when there is one, else the default
\* of p when p is in Base, and "not found" exactly when p is not in Base.
C6_GetReturnsOverrideElseDefault ==
    last.op = "get" =>
        /\ Has(m_user_config, last.path) => last.json = m_user_config[last.path]
        /\ (~Has(m_user_config, last.path) /\ last.path \in DOMAIN m_base_config)
              => last.json = m_base_config[last.path].default
        /\ last.json = NotFoundJson <=> last.path \notin DOMAIN m_base_config

\* C6 witness: a get returned an override that is not the default.
C6_Witness ==
    /\ last.op = "get" /\ Has(m_user_config, last.path)
    /\ last.json = m_user_config[last.path]
    /\ ~JsonEq(last.json, m_base_config[last.path].default)

\* C7: every path of the User table is a path of Base, and the classified
\* type of its value is the type Base has for it.
C7_UserEntriesTyped ==
    \A p \in DOMAIN m_user_config :
        /\ p \in DOMAIN m_base_config
        /\ getConfigType(m_user_config[p]) = m_base_config[p].type

\* C7 witness: after a drift re-merge of a file that also holds an entry of
\* the wrong type, both settings have overrides.
C7_Witness ==
    /\ last.drift /\ userFile.parsable
    /\ Has(userFile.doc, P_dpi) /\ userFile.doc[P_dpi].lex = "string"
    /\ Has(m_user_config, P_dpi) /\ Has(m_user_config, P_mirroring)

\* The entries of the file a merge accepts: the path is in Base and the
\* value has the type of the setting.
ValidEntry(f, p) ==
    /\ f.exists /\ f.parsable /\ Has(f.doc, p) /\ p \in DOMAIN m_base_config
    /\ getConfigType(Parse(f.doc[p])) = m_base_config[p].type

DriftCall(op) == op \in {"get", "set", "wasUpdated"}

InQueue(q, p) == \E i \in DOMAIN q : q[i] = p

\* C8 as stated: when the file's time has changed and the file holds a
\* valid value for p, the next get, set or wasUpdated leaves p in the queue
\* and wasUpdated reporting true.
C8_DriftAlwaysSignals ==
    [][\A p \in Paths :
          (/\ DriftCall(last'.op) /\ Drifted(Self, userFile)
           /\ ValidEntry(userFile, p))
          => (/\ InQueue(m_updated_config', p)
              /\ IF last'.op = "wasUpdated" THEN last'.retFlag ELSE m_updated')]_vars

\* C8 amended: the same, when the value in the file is not the override p
\* has (p has none, or a different one).
C8_DriftSignalsChange ==
    [][\A p \in Paths :
          (/\ DriftCall(last'.op) /\ Drifted(Self, userFile)
           /\ ValidEntry(userFile, p)
           /\ Has(m_user_config, p) =>
                  ~JsonEq(m_user_config[p], Parse(userFile.doc[p])))
          => (/\ InQueue(m_updated_config', p)
              /\ m_user_config'[p] = Parse(userFile.doc[p])
                    \/ (last'.op = "set" /\ last'.path = p /\ last'.status = "Ok")
              /\ IF last'.op = "wasUpdated" THEN last'.retFlag ELSE m_updated')]_vars

\* C8 witness: wasUpdated re-parsed the file, returned true, and the queue
\* holds the setting whose value the file changed.
C8_Witness ==
    /\ last.op = "wasUpdated" /\ last.drift /\ last.retFlag
    /\ ValidEntry(userFile, P_dpi) /\ InQueue(m_updated_config, P_dpi)
    /\ m_user_config[P_dpi] = Parse(userFile.doc[P_dpi])

\* C9: a drift re-merge of a file that lacks a key p keeps the override of
\* p, and a get(p) doing that re-merge returns it (a set(p, v) returning Ok
\* in that call replaces it by v).
C9_MergeKeepsRemovedKeys ==
    [][\A p \in DOMAIN m_user_config :
          (/\ DriftCall(last'.op) /\ Drifted(Self, userFile)
           /\ userFile.parsable /\ ~Has(userFile.doc, p)
           /\ ~(last'.op = "set" /\ last'.path = p /\ last'.status = "Ok"))
          => (/\ Has(m_user_config', p)
              /\ m_user_config'[p] = m_user_config[p]
              /\ (last'.op = "get" /\ last'.path = p)
                    => last'.json = m_user_config[p])]_vars

\* C9 witness: a get re-parsed a file that lacks the key and returned the
\* override, which is not the default.
C9_Witness ==
    /\ last.op = "get" /\ last.drift /\ userFile.parsable
    /\ ~Has(userFile.doc, last.path) /\ Has(m_user_config, last.path)
    /\ last.json = m_user_config[last.path]
    /\ ~JsonEq(last.json, m_base_config[last.path].default)

\* C10: updatedConfigs returns the queue and leaves it empty, and a call
\* directly after another returns the empty list.
C10_DrainsOnce ==
    [][last'.op = "updatedConfigs"
       => (/\ last'.retPaths = m_updated_config
           /\ m_updated_config' = <<>>
           /\ last.op = "updatedConfigs" => last'.retPaths = <<>>)]_vars

\* C10 witness: updatedConfigs returned two paths and the queue is empty.
C10_Witness ==
    /\ last.op = "updatedConfigs" /\ Len(last.retPaths) = 2
    /\ m_updated_config = <<>>

\* C11: wasUpdated returns the flag as its drift check leaves it and clears
\* it; with the flag clear and the file's time the recorded one, no get,
\* updatedConfigs or wasUpdated sets it again, so a wasUpdated that returned
\* true is followed by one that returns false unless a set or a
\* modification of the file comes in between.
C11_WasUpdatedClears ==
    [][/\ last'.op = "wasUpdated" =>
              /\ last'.retFlag = Checked.updated
              /\ ~m_updated'
              /\ ~Drifted(SelfNext, userFile')
       /\ (/\ last'.op \in {"get", "updatedConfigs", "wasUpdated"}
           /\ ~m_updated /\ ~Drifted(Self, userFile))
          => (~m_updated' /\ ~last'.retFlag /\ ~Drifted(SelfNext, userFile'))
       /\ (last.op = "wasUpdated" /\ last.retFlag /\ last'.op = "wasUpdated")
          => ~last'.retFlag]_vars

\* C11 witness: wasUpdated returned true and the flag is clear.
C11_Witness == last.op = "wasUpdated" /\ last.retFlag /\ ~m_updated

\* C12: a set(p, v) that returns Ok appends p once to the queue its drift
\* check left and sets the flag, and records the time of its own write: as
\* long as nothing else modifies the file, the drift checks that follow
\* find the recorded time and do not re-parse.
C12_OwnWriteIsNotDrift ==
    [][/\ (last'.op = "set" /\ last'.status = "Ok") =>
              /\ m_updated_config' = Append(Checked.queue, last'.path)
              /\ m_updated'
              /\ ~Drifted(SelfNext, userFile')
       /\ (/\ last.op = "set" /\ last.status = "Ok" /\ DriftCall(last'.op))
          => ~last'.drift
       /\ (~Drifted(Self, userFile) /\ DriftCall(last'.op)) =>
              /\ ~last'.drift
              /\ (last'.op # "set" \/ last'.status # "Ok") =>
                     m_updated_config' = m_updated_config
              /\ last'.status \in {"NotFound", "TypeMismatch"} =>
                     ~Drifted(SelfNext, userFile')]_vars

\* C12 witness: a get followed a set that returned Ok, did not re-parse the
\* file, and the queue holds the path set exactly once.
C12_Witness ==
    /\ last.op = "get" /\ ~last.drift /\ userFile.parsable
    /\ m_last_write = userFile.mtime /\ m_updated
    /\ m_updated_config = <<P_dpi>>
    /\ m_user_config[P_dpi] = JInt(120)

\* Two tables hold the same settings with values that compare equal as json.
TableEq(a, b) ==
    /\ DOMAIN a = DOMAIN b
    /\ \A p \in DOMAIN a : JsonEq(a[p], b[p])

\* C13 as stated: after a set that returns FileError, re-parsing and
\* re-merging the file on disk gives the User table of before the call.
C13_RemergeGivesTableBeforeCall ==
    [][(last'.op = "set" /\ last'.status = "FileError")
       => TableEq(parseUserConfig(SelfNext, userFile').user,
                  m_user_config)]_vars

\* C13 amended: after a set that returns FileError, re-parsing and
\* re-merging the file on disk changes nothing in the User table the call
\* left, and that table is the one before the call as the drift check of
\* the call left it (the same table when the file's time was the recorded
\* one).
C13_RemergeGivesTableOfCall ==
    [][(last'.op = "set" /\ last'.status = "FileError")
       => (/\ TableEq(parseUserConfig(SelfNext, userFile').user,
                      m_user_config')
           /\ TableEq(checkConfigFileUpdate(SelfNext, userFile').user,
                      m_user_config')
           /\ ~Drifted(Self, userFile) => m_user_config' = m_user_config
           /\ Drifted(Self, userFile) =>
                  m_user_config' = parseUserConfig(Self, userFile).user)]_vars

\* C13 witness: a set of the integer setting could not open the file, which
\* still holds another value for it, and the table holds that value.
C13_Witness ==
    /\ last.op = "set" /\ last.status = "FileError"
    /\ last.write = "open_fail" /\ last.path = P_dpi
    /\ ValidEntry(userFile, P_dpi) /\ Has(m_user_config, P_dpi)
    /\ m_user_config[P_dpi] = Parse(userFile.doc[P_dpi])
    /\ m_user_config[P_dpi].val # last.val

\* C14: after a set that returned Ok the user file exists and parses, and
\* its entries are those of the User table: the same paths, each with the
\* value of the table.
C14_FileIsUserTable ==
    (last.op = "set" /\ last.status = "Ok") =>
        /\ userFile.exists /\ userFile.parsable
        /\ DOMAIN userFile.doc = DOMAIN m_user_config
        /\ \A p \in DOMAIN m_user_config :
               JsonEq(Parse(userFile.doc[p]), m_user_config[p])

\* C14 witness: a set of one setting returned Ok after its drift check
\* re-parsed a file that lacked the override of the other setting, and the
\* file now holds both.
C14_Witness ==
    /\ last.op = "set" /\ last.status = "Ok" /\ last.drift
    /\ last.path = P_mirroring
    /\ Has(m_user_config, P_dpi) /\ Has(userFile.doc, P_dpi)
    /\ Has(userFile.doc, P_mirroring)

\* How many times a path occurs in a sequence of paths.
Count(seq, x) == Cardinality({i \in DOMAIN seq : seq[i] = x})

\* This step ends an iteration of the run loop.
IterationEnds ==
    \E t \in Threads : pc[t] \in {"signal", "drain"} /\ pc'[t] = "poll"

\* C15 as stated: an iteration that served a set(p, v) over IPC emits
\* exactly one PropertiesChanged naming p when the set returned Ok, and none
\* naming p when it returned NotFound, TypeMismatch or FileError.
C15_OneSignalPerSet ==
    [][(IterationEnds /\ served.op = "set") =>
          Count(emitted', served.path) =
              IF served.status = "Ok" THEN 1 ELSE 0]_vars

\* C15 amended: the signals of an iteration are emitted by its
\* sendChangeSignals, after the served call and its write have ended, and
\* there is one per queue entry: for each property, one for the set served
\* if it returned Ok (the file then holds the value set) and one for each
\* time a drift check of the iteration queued it because of an external
\* edit. A set that returned NotFound, TypeMismatch or FileError adds no
\* signal of its own.
C15_OneSignalPerSetAndPerMerge ==
    [][/\ IterationEnds =>
              \A q \in Paths :
                  Count(emitted', q) =
                      Count(drifted', q)
                      + (IF /\ served.op = "set" /\ served.status = "Ok"
                            /\ served.path = q
                         THEN 1 ELSE 0)
       /\ emitted' # emitted =>
              \/ emitted' = <<>>
              \/ \E t \in Threads : pc[t] = "drain" /\ pc'[t] = "poll"
       /\ (/\ \E t \in Threads : pc[t] = "process"
           /\ served'.op = "set" /\ served'.status = "Ok") =>
              /\ userFile'.exists /\ userFile'.parsable
              /\ Has(userFile'.doc, served'.path)
              /\ JsonEq(Parse(userFile'.doc[served'.path]),
                        m_user_config'[served'.path])
              /\ Count(m_updated_config', served'.path) =
                     1 + Count(drifted', served'.path)]_vars

\* C15 witness: an iteration served a set that returned Ok and has ended
\* with one signal, naming the property set.
C15_Witness ==
    /\ served.op = "set" /\ served.status = "Ok"
    /\ emitted = <<served.path>> /\ drifted = <<>>
    /\ pc["run"] = "poll" /\ m_updated_config = <<>>

\* C20: the run loop is the only thread that calls the store: between the
\* wasUpdated and the updatedConfigs of sendChangeSignals nothing else
\* changes the store, and every step that changes the store or emits a
\* signal is a step of the run loop.
C20_OneLoopThread ==
    [][/\ DOMAIN pc = {"run"}
       /\ \A t \in DOMAIN pc :
              pc[t] = "drain" =>
                  \/ pc'[t] # "drain"
                  \/ UNCHANGED <<m_user_config, m_updated_config, m_updated,
                                 m_last_write>>
       /\ (\/ <<m_user_config, m_updated_config, m_updated, m_last_write>>' #
                 <<m_user_config, m_updated_config, m_updated, m_last_write>>
           \/ Len(emitted') > Len(emitted))
          => pc'["run"] # pc["run"]]_vars

\* C20 witness: the run loop stands between wasUpdated and updatedConfigs
\* in an iteration that served a set and whose drift check had merged an
\* external edit.
C20_Witness ==
    /\ pc["run"] = "drain"
    /\ served.op = "set" /\ served.status = "Ok"
    /\ drifted # <<>> /\ Len(m_updated_config) = 2

\* C16: while the user file does not exist the drift check does nothing: a
\* get or wasUpdated leaves the User table, the queue and the recorded time
\* as they were (get leaves the flag too) and get(p) returns the override
\* the table holds; a set that returns Ok adds only its own value and path;
\* and the deletion itself changes nothing in the store.
C16_MissingFileIgnored ==
    [][/\ (~userFile.exists /\ last'.op \in {"get", "wasUpdated"}) =>
              /\ m_user_config' = m_user_config
              /\ m_updated_config' = m_updated_config
              /\ m_last_write' = m_last_write
              /\ last'.op = "get" =>
                     /\ m_updated' = m_updated
                     /\ Has(m_user_config, last'.path) =>
                            last'.json = m_user_config[last'.path]
              /\ last'.op = "wasUpdated" => last'.retFlag = m_updated
       /\ (~userFile.exists /\ last'.op = "set" /\ last'.status = "Ok") =>
              /\ m_user_config' =
                     Put(m_user_config, last'.path,
                         ToJson(last'.ctype, last'.val))
              /\ m_updated_config' = Append(m_updated_config, last'.path)
       /\ (userFile.exists /\ ~userFile'.exists) =>
              UNCHANGED <<m_user_config, m_updated_config, m_updated,
                          m_last_write>>]_vars

\* C16 witness: the file was read and then deleted, and a get returned the
\* override read from it.
C16_Witness ==
    /\ last.op = "get" /\ ~userFile.exists /\ m_last_write # EpochTime
    /\ Has(m_user_config, last.path)
    /\ last.json = m_user_config[last.path]
    /\ ~JsonEq(last.json, m_base_config[last.path].default)

\* C17: constructed with no user file, or one that does not parse, the
\* store has an empty User table, an empty queue and a clear flag; a get
\* of a path of Base then returns the default; and a set with a matching
\* type whose write succeeds returns Ok and leaves a file that exists,
\* parses, and holds the value set.
C17_StartsEmptyWithoutFile ==
    [][(last.op = "init" /\ (~userFile.exists \/ ~userFile.parsable)) =>
          /\ m_user_config = EmptyMap /\ m_updated_config = <<>>
          /\ ~m_updated
          /\ (last'.op = "get" /\ Has(m_base_config, last'.path)) =>
                 last'.json = m_base_config[last'.path].default
          /\ (/\ last'.op = "set" /\ Has(m_base_config, last'.path)
              /\ TypeMatches(last'.path, ToJson(last'.ctype, last'.val))
              /\ last'.write = "ok") =>
                 /\ last'.status = "Ok"
                 /\ userFile'.exists /\ userFile'.parsable
                 /\ DOMAIN userFile'.doc = {last'.path}
                 /\ JsonEq(Parse(userFile'.doc[last'.path]),
                           ToJson(last'.ctype, last'.val))]_vars

\* C17 witness: the first call after construction was a set that returned
\* Ok, and the file holds exactly the value set.
C17_Witness ==
    /\ last.op = "set" /\ last.status = "Ok" /\ ~last.drift
    /\ clock = 2 /\ userFile.exists /\ userFile.mtime = 2
    /\ DOMAIN userFile.doc = {P_dpi} /\ DOMAIN m_user_config = {P_dpi}
    /\ m_updated_config = <<P_dpi>>

\* C18: None is never a stored type: no entry of Base has type None, no
\* value of the User table classifies as None, and no set of a value that
\* classifies as None returns Ok.
C18_NoneNeverStored ==
    /\ \A p \in DOMAIN m_base_config : m_base_config[p].type # "None"
    /\ \A p \in DOMAIN m_user_config :
           getConfigType(m_user_config[p]) # "None"
    /\ (/\ last.op = "set"
        /\ getConfigType(ToJson(last.ctype, last.val)) = "None")
       => last.status # "Ok"

\* C19: getConfigType maps a boolean to Bool, an integer to Int, a float to
\* Float, a string to String, an array whose elements are all integers,
\* all floats or all strings to ArrayInt, ArrayFloat or ArrayString, and a
\* mixed array or any other value to None (an array without elements has
\* no element type to tell: any array type or None is taken for it).
C19_ClassifyTable ==
    classifyOut # "pending" =>
        LET k == classifyIn.kind
            e == classifyIn.elems
            all(S) == \A i \in DOMAIN e : e[i] \in S
        IN  CASE k = "boolean" -> classifyOut = "Bool"
              [] IsIntegerKind(k) -> classifyOut = "Int"
              [] k = "number_float" -> classifyOut = "Float"
              [] k = "string" -> classifyOut = "String"
              [] k = "array" /\ e = <<>> ->
                    classifyOut \in
                        {"ArrayInt", "ArrayFloat", "ArrayString", "None"}
              [] k = "array" /\ e # <<>> ->
                    classifyOut =
                        IF all({"number_integer", "number_unsigned"})
                        THEN "ArrayInt"
                        ELSE IF all({"number_float"}) THEN "ArrayFloat"
                        ELSE IF all({"string"}) THEN "ArrayString"
                        ELSE "None"
              [] OTHER -> classifyOut = "None"

\* The file's entry for p differs from what the table holds for p.
EntryChanges(f, p) ==
    ~Has(m_user_config, p) \/ ~JsonEq(m_user_config[p], Parse(f.doc[p]))

\* This step is a get or wasUpdated whose drift check merged a file.
MergeStep ==
    /\ last'.op \in {"get", "wasUpdated"} /\ last'.drift
    /\ userFile.parsable

\* The flag as the merge of this step left it.
FlagAfterMerge == IF last'.op = "get" THEN m_updated' ELSE last'.retFlag

\* C21: a merge skips a file entry whose path Base lacks or whose type is
\* not the type Base has for it: the table keeps what it held for that
\* path, the queue gets no entry for it and the flag is not set for it,
\* while each valid entry of the same file is merged.
C21_InvalidEntriesSkipped ==
    [][MergeStep =>
          /\ \A p \in DOMAIN userFile.doc :
                 ~ValidEntry(userFile, p) =>
                     /\ Has(m_user_config', p) = Has(m_user_config, p)
                     /\ Has(m_user_config, p) =>
                            m_user_config'[p] = m_user_config[p]
                     /\ Count(m_updated_config', p) =
                            Count(m_updated_config, p)
          /\ \A p \in DOMAIN userFile.doc :
                 ValidEntry(userFile, p) =>
                     /\ Has(m_user_config', p)
                     /\ m_user_config'[p] = Parse(userFile.doc[p])
          /\ (\A p \in DOMAIN userFile.doc :
                 ValidEntry(userFile, p) => ~EntryChanges(userFile, p))
             => (/\ m_updated_config' = m_updated_config
                 /\ FlagAfterMerge = m_updated)]_vars

\* C21 witness: a get merged a file whose first entry has the wrong type
\* and whose second entry is valid: the table holds the second and not the
\* first, and the queue names only the second.
C21_Witness ==
    /\ last.op = "get" /\ last.drift /\ userFile.parsable
    /\ Has(userFile.doc, P_mirroring) /\ ~ValidEntry(userFile, P_mirroring)
    /\ ValidEntry(userFile, P_dpi)
    /\ ~Has(m_user_config, P_mirroring)
    /\ m_user_config[P_dpi] = Parse(userFile.doc[P_dpi])
    /\ m_updated_config = <<P_dpi>> /\ m_updated

\* C22: a merge appends a path to the queue, once, exactly when the file
\* holds a valid value for it that the table lacks or that differs from the
\* table's, and sets the flag only then: merging a file whose valid
\* entries all equal the table's appends nothing and leaves the flag as it
\* was.
C22_MergeMarksOnlyChanges ==
    [][MergeStep =>
          /\ \A p \in Paths :
                 Count(m_updated_config', p) =
                     Count(m_updated_config, p)
                     + (IF ValidEntry(userFile, p) /\ EntryChanges(userFile, p)
                        THEN 1 ELSE 0)
          /\ FlagAfterMerge =
                 (m_updated \/ \E p \in Paths :
                     ValidEntry(userFile, p) /\ EntryChanges(userFile, p))]_vars

\* C22 witness: a wasUpdated re-parsed a file whose time had changed and
\* whose one valid entry equals the table's: it returned false and the
\* queue is empty.
C22_Witness ==
    /\ last.op = "wasUpdated" /\ last.drift /\ ~last.retFlag
    /\ m_updated_config = <<>>
    /\ ValidEntry(userFile, P_dpi)
    /\ m_user_config[P_dpi] = Parse(userFile.doc[P_dpi])
    /\ m_last_write = userFile.mtime /\ m_last_write > 1

\* C23: in an iteration whose poll succeeded the pending call is processed
\* first, wasUpdated is called next, and only after it returned true the
\* queue is drained: the signals are the drained paths, one each, in the
\* order of the queue; when the iteration ends the queue is empty and the
\* flag is false.
C23_IterationOrder ==
    [][\A t \in Threads :
          /\ (pc[t] # pc'[t] /\ pc'[t] = "process") => pc[t] = "poll"
          /\ (pc[t] # pc'[t] /\ pc'[t] = "signal") => pc[t] = "process"
          /\ (pc[t] = "process" /\ pc'[t] # "process") =>
                 /\ pc'[t] = "signal" /\ emitted' = <<>>
                 /\ last' = last \/ last'.op \in {"get", "set"}
          /\ (pc[t] = "signal" /\ pc'[t] # "signal") =>
                 /\ last'.op = "wasUpdated"
                 /\ pc'[t] = (IF last'.retFlag THEN "drain" ELSE "poll")
                 /\ emitted' = <<>>
          /\ (pc[t] = "drain" /\ pc'[t] # "drain") =>
                 /\ last'.op = "updatedConfigs"
                 /\ last'.retPaths = m_updated_config
                 /\ emitted' = m_updated_config
                 /\ pc'[t] = "poll"
          /\ (pc[t] \in {"signal", "drain"} /\ pc'[t] = "poll") =>
                 (m_updated_config' = <<>> /\ ~m_updated')]_vars

\* C23 witness: an iteration has ended after emitting two signals, in the
\* order in which the two paths were queued: first the one merged from the
\* file, then the one set.
C23_Witness ==
    /\ pc["run"] = "poll" /\ emitted = <<P_mirroring, P_dpi>>
    /\ drifted = <<P_mirroring>>
    /\ served.op = "set" /\ served.status = "Ok" /\ served.path = P_dpi
    /\ m_updated_config = <<>> /\ ~m_updated

\* C24: an iteration whose poll failed, with EINTR or any other error,
\* processes no call, calls nothing of the store and emits no signal, and
\* the loop stands at the poll of its next iteration.
C24_FailedPollContinues ==
    [][/\ served'.op = "poll" =>
              /\ served'.status \in PollErrors
              /\ \A t \in Threads : pc'[t] = "poll"
              /\ emitted' = <<>> /\ drifted' = <<>>
       /\ (served'.op = "poll" /\ served' # served) =>
              /\ \A t \in Threads : pc[t] = "poll"
              /\ UNCHANGED <<m_user_config, m_updated_config, m_updated,
                             m_last_write, userFile, last>>
       /\ \A t \in Threads : pc'[t] \notin {"crashed", "exited"}]_vars

\* C24 witness: the poll of an iteration failed with EINTR while a change
\* set in the store by an external edit is still undetected, and the loop
\* stands at its poll.
C24_Witness ==
    /\ served = PollError("EINTR") /\ pc["run"] = "poll"
    /\ emitted = <<>> /\ Drifted(Self, userFile)
    /\ ValidEntry(userFile, P_dpi)

\* C25: every path in the change queue, and every path handed to the
\* notification step, is a key of the base table and its category has an
\* object: the notification step never calls through a missing object.
C25_QueuePathsHaveObjects ==
    /\ \A i \in DOMAIN m_updated_config :
           /\ m_updated_config[i] \in DOMAIN m_base_config
           /\ m_updated_config[i].category \in CategoryObjects
    /\ \A i \in DOMAIN last.retPaths :
           /\ last.retPaths[i] \in DOMAIN m_base_config
           /\ last.retPaths[i].category \in CategoryObjects
    /\ \A i \in DOMAIN emitted : emitted[i].category \in CategoryObjects
    /\ \A t \in Threads : pc[t] # "crashed"

\* C25 witness: a signal was emitted for a setting that has no property of
\* its own, through the object of its category.
C25_Witness ==
    /\ pc["run"] = "poll" /\ last.op = "updatedConfigs"
    /\ emitted = <<P_mirroring>> /\ P_mirroring \notin Registered

\* C27: whenever the loop calls wasUpdated, it returns true exactly when
\* the queue, as the drift check of the call left it, is not empty; outside
\* sendChangeSignals the flag is set exactly when the queue is not empty,
\* and between wasUpdated and updatedConfigs the queue is not empty.
C27_FlagMatchesQueue ==
    [][/\ (\E t \in Threads : pc[t] = "signal" /\ pc'[t] # "signal") =>
              (last'.retFlag <=> m_updated_config' # <<>>)
       /\ (\A t \in Threads : pc'[t] # "drain") =>
              (m_updated' <=> m_updated_config' # <<>>)
       /\ (\E t \in Threads : pc'[t] = "drain") =>
              (~m_updated' /\ m_updated_config' # <<>>)]_vars

\* C27 witness: wasUpdated returned true to the loop with a path in the
\* queue that a set whose write failed did not put there: the drift check
\* of the set had merged it.
C27_Witness ==
    /\ pc["run"] = "drain" /\ last.op = "wasUpdated" /\ last.retFlag
    /\ served.op = "set" /\ served.status = "FileError"
    /\ m_updated_config # <<>> /\ ~m_updated

\* This step is a set(p, v) that returned Ok and whose drift check merged
\* the file.
SetMergedAndStored ==
    /\ last'.op = "set" /\ last'.status = "Ok" /\ last'.drift
    /\ userFile.parsable

\* The file after this step holds the table's value for p.
FileHolds(p) ==
    /\ userFile'.exists /\ userFile'.parsable /\ Has(userFile'.doc, p)
    /\ Has(m_user_config', p)
    /\ JsonEq(Parse(userFile'.doc[p]), m_user_config'[p])

\* C26 as stated: when set(p, v) returns Ok while the file holds an
\* undetected, valid, externally written value X for another path q, then
\* afterwards the table holds X for q, q is in the queue, and the file
\* holds both q = X and p = v.
C26_PendingEditKeptAndQueued ==
    [][SetMergedAndStored =>
          \A q \in Paths \ {last'.path} :
              ValidEntry(userFile, q) =>
                  /\ Has(m_user_config', q)
                  /\ JsonEq(m_user_config'[q], Parse(userFile.doc[q]))
                  /\ InQueue(m_updated_config', q)
                  /\ FileHolds(q) /\ FileHolds(last'.path)]_vars

\* C26 amended: when set(p, v) returns Ok while the file holds an
\* undetected, valid, externally written value X for another path q, then
\* afterwards the table holds X for q and v for p, the file holds both, and
\* q has been appended to the queue, once, if X differs from the value the
\* table held for q (or the table held none), and not otherwise.
C26_PendingEditKept ==
    [][SetMergedAndStored =>
          \A q \in Paths \ {last'.path} :
              ValidEntry(userFile, q) =>
                  /\ Has(m_user_config', q)
                  /\ JsonEq(m_user_config'[q], Parse(userFile.doc[q]))
                  /\ m_user_config'[last'.path] =
                         ToJson(last'.ctype, last'.val)
                  /\ Count(m_updated_config', q) =
                         Count(m_updated_config, q)
                         + (IF EntryChanges(userFile, q) THEN 1 ELSE 0)
                  /\ FileHolds(q) /\ FileHolds(last'.path)]_vars

\* C26 witness: a set of one setting returned Ok after its drift check
\* merged an external value of the other; the table and the file hold
\* both, and the queue names the other setting and then the one set.
C26_Witness ==
    /\ last.op = "set" /\ last.status = "Ok" /\ last.drift
    /\ last.path = P_mirroring
    /\ m_updated_config = <<P_dpi, P_mirroring>>
    /\ m_user_config[P_dpi] = JUnsigned(120)
    /\ userFile.parsable /\ Has(userFile.doc, P_dpi)
    /\ Parse(userFile.doc[P_dpi]) = JUnsigned(120)
    /\ Has(userFile.doc, P_mirroring)

\* C28: right after construction the queue is empty and the flag false,
\* whatever the user file supplied, and the time of the file is the
\* recorded one; from any such state a get, wasUpdated or updatedConfigs
\* gives such a state again, wasUpdated returning false and updatedConfigs
\* an empty list.
C28_InitialLoadSilent ==
    [][/\ last.op = "init" =>
              /\ m_updated_config = <<>> /\ ~m_updated
              /\ ~Drifted(Self, userFile)
       /\ (/\ m_updated_config = <<>> /\ ~m_updated
           /\ ~Drifted(Self, userFile)
           /\ last'.op \in {"get", "wasUpdated", "updatedConfigs"}) =>
              /\ m_updated_config' = <<>> /\ ~m_updated'
              /\ ~Drifted(SelfNext, userFile')
              /\ ~last'.retFlag /\ last'.retPaths = <<>>
              /\ m_user_config' = m_user_config]_vars

\* C28 witness: constructed over a file that supplied an override, with
\* no write or edit since, wasUpdated returned false.
C28_Witness ==
    /\ last.op = "wasUpdated" /\ ~last.retFlag /\ ~last.drift
    /\ clock = 1 /\ userFile.exists /\ m_last_write = userFile.mtime
    /\ Has(m_user_config, P_dpi) /\ m_updated_config = <<>>

\* C29: a set(p, v) of the matching type, whose write succeeds, returns
\* Ok; and when v equals the value p had (override, else default) the set
\* still writes the file from the table, appends p to the queue and sets
\* the flag.
C29_EqualValueStillSet ==
    [][/\ (/\ last'.op = "set" /\ Has(m_base_config, last'.path)
           /\ TypeMatches(last'.path, ToJson(last'.ctype, last'.val))
           /\ last'.write = "ok") => last'.status = "Ok"
       /\ (/\ last'.op = "set" /\ last'.status = "Ok"
           /\ JsonEq(Lookup(Checked.user, last'.path),
                     ToJson(last'.ctype, last'.val))) =>
              /\ m_updated_config' = Append(Checked.queue, last'.path)
              /\ m_updated'
              /\ clock' = clock + 1
              /\ userFile' = DocFile(DumpTable(m_user_config'), clock')
              /\ m_last_write' = clock'
              /\ TableEq(m_user_config',
                         Put(Checked.user, last'.path,
                             Lookup(Checked.user, last'.path)))]_vars

\* C29 witness: two sets of the same setting returned Ok one after the
\* other with no merge in between: the queue names the setting twice.
C29_Witness ==
    /\ last.op = "set" /\ last.status = "Ok" /\ ~last.drift
    /\ last.path = P_dpi /\ m_updated_config = <<P_dpi, P_dpi>>
    /\ clock = 3 /\ m_last_write = 3 /\ m_updated
    /\ DOMAIN m_user_config = {P_dpi}

\* C30: a drift check that finds the file unparsable changes neither the
\* table nor the queue nor the flag and records the file's time, so that
\* the file is not parsed again until its time changes; get returns what
\* the table holds, and a set that returns Ok adds its value to that table.
C30_UnparsableEditIgnored ==
    [][(/\ DriftCall(last'.op) /\ last'.drift
        /\ userFile.exists /\ ~userFile.parsable) =>
          /\ last'.op \in {"get", "wasUpdated"} =>
                 /\ m_user_config' = m_user_config
                 /\ m_updated_config' = m_updated_config
                 /\ FlagAfterMerge = m_updated
                 /\ m_last_write' = userFile.mtime
          /\ last'.op = "get" =>
                 last'.json = Lookup(m_user_config, last'.path)
          /\ last'.op = "set" =>
                 /\ last'.status = "Ok" =>
                        /\ m_user_config' =
                               Put(m_user_config, last'.path,
                                   ToJson(last'.ctype, last'.val))
                        /\ m_updated_config' =
                               Append(m_updated_config, last'.path)
                 /\ last'.status # "Ok" =>
                        /\ m_user_config' = m_user_config
                        /\ m_updated_config' = m_updated_config
                        /\ m_updated' = m_updated
          /\ userFile' = userFile =>
                 (m_last_write' = userFile.mtime
                  /\ ~Drifted(SelfNext, userFile'))]_vars

\* C30 witness: a get found the file unparsable after an edit, recorded
\* its time and returned the override the table had kept.
C30_Witness ==
    /\ last.op = "get" /\ last.drift
    /\ userFile.exists /\ ~userFile.parsable
    /\ m_last_write = userFile.mtime /\ m_last_write > 1
    /\ Has(m_user_config, last.path)
    /\ last.json = m_user_config[last.path]

\* sendChangeSignals has just emitted a signal for p.
Notified(p) == last.op = "updatedConfigs" /\ InQueue(emitted, p)

\* The file, written at time m by another process and not yet seen by the
\* store, holds a valid value for p that differs from the table's.
EditPending(p, m) ==
    /\ userFile.exists /\ userFile.mtime = m /\ m_last_write # m
    /\ ValidEntry(userFile, p) /\ EntryChanges(userFile, p)

\* The file written at time m was replaced or deleted before any drift
\* check saw it.
Superseded(m) ==
    /\ m_last_write < m
    /\ ~userFile.exists \/ userFile.mtime # m

\* The times an edit can bear: ExternalEdit stamps clock + 1, and the clock
\* starts at the time of the file the constructor read.
EditTimes == {m \in 1..MaxClock : m > 1}

\* The loop has just served a set of p that returned Ok.
SetServed(p) ==
    /\ served.op = "set" /\ served.status = "Ok" /\ served.path = p
    /\ last.op = "set"

\* C31 as stated: while the loop keeps completing iterations, every valid
\* external edit that changes the value of a path p of Base, and every set
\* of p that returned Ok, is eventually followed by a signal for p.
C31_EveryChangeNotified ==
    \A p \in DOMAIN m_base_config :
        /\ SetServed(p) ~> Notified(p)
        /\ \A m \in EditTimes : EditPending(p, m) ~> Notified(p)

\* C31 amended: while the loop keeps completing iterations, every set of p
\* that returned Ok is eventually followed by a signal for p, and so is
\* every valid external edit that changes the value of p, unless the file
\* is replaced or deleted before a drift check has seen the edit.
C31_DetectedChangeNotified ==
    \A p \in DOMAIN m_base_config :
        /\ SetServed(p) ~> Notified(p)
        /\ \A m \in EditTimes :
               EditPending(p, m) ~> (Notified(p) \/ Superseded(m))

\* C31 witness: with no call served in the iteration, a signal was emitted
\* for a setting that the drift check of wasUpdated had merged from an
\* edited file.
C31_Witness ==
    /\ Notified(P_dpi) /\ served = NoCall /\ drifted = <<P_dpi>>
    /\ emitted = <<P_dpi>> /\ userFile.mtime > 1
    /\ m_last_write = userFile.mtime

====
